---- MODULE Spec2Model ----
(***************************************************************************)
(* Document-analysis pipeline.                                             *)
(*                                                                         *)
(*   Spec      the Ledger (table documents of ocr_data.db) under the       *)
(*             acquisition script (extraction_testing.py) and the analysis *)
(*             script (extract_data.py), run one after the other, any      *)
(*             number of times.                                            *)
(*   SpecRules one run of the rule-based extractor (main.py) over a        *)
(*             directory of PDF files.                                     *)
(*   SpecText  find_candidate_blocks and extract_fields (main.py) on the   *)
(*             text of one page.                                           *)
(*   SpecCrash Spec, with either script terminated from outside at any     *)
(*             point.                                                      *)
(*   SpecFallback  the OCR fallback of main.py on the pages of one file.   *)
(*                                                                         *)
(* The external services and libraries (generative service, Drive, Vision, *)
(* pdfminer, OCR) answer or raise as they please; the local disk (SQLite   *)
(* file, output files) does not fail.                                      *)
(***************************************************************************)
EXTENDS Integers, Sequences, FiniteSets, TLC

(***************************************************************************)
(* Bounds of the model.                                                    *)
(***************************************************************************)
\* number of documents of the Drive folder (pdf_id values)
MaxDocs == 2

\* number of PDF files under --input_dir, and of pages of one file
MaxPdfs == 2
MaxPages == 1

Docs == 1..MaxDocs

Range(s) == {s[i] : i \in 1..Len(s)}

\* every ordering of the set S, as sequences without repetition
Orderings(S) ==
    {s \in [1..Cardinality(S) -> S] : \A i, j \in 1..Cardinality(S) : s[i] = s[j] => i = j}

(***************************************************************************)
(* Values.                                                                 *)
(***************************************************************************)
\* SQL NULL of column gemini_status
NULL == "NULL"

\* A Python value handed to update_database_with_result or stored (as its
\* json.dumps text) in column gemini_json: its type, the keys of a dict
\* (the elements of a list, the words of a str), and the raw_response an
\* error envelope carries.  NullJson is SQL NULL of column gemini_json.
Value(kind, items, raw) == [kind |-> kind, items |-> items, raw |-> raw]

NullJson == Value("NULL", {}, <<>>)

\* {"status": "irrelevant"}
IrrelevantMarker == Value("dict", {"status"}, <<>>)

\* the text the except clause of extract_structured_data uses when the
\* service call itself raised
NoResponse == <<"No response">>

(***************************************************************************)
(* The generative service, as the code sees it.                            *)
(***************************************************************************)
\* Texts of a response (response.text), as sequences of lexical pieces;
\* FENCE_JSON and FENCE are the opening and closing code-fence markers.
ResponseTexts ==
    { <<"{mw}">>,                           \* a JSON object
      <<"FENCE_JSON", "\n", "{mw}", "\n", "FENCE">>,   \* the same, fenced
      <<"{error}">>,                        \* a JSON object with key "error"
      <<"[error]">>,                        \* the JSON list [error]
      <<"5">>,                              \* a JSON number
      <<"prose">> }                         \* no JSON at all

\* What one extraction call can do: generate_content raises; it returns a
\* response whose .text accessor raises; it returns a response with a text.
ServiceOutcomes ==
    {[call |-> "raises", text |-> <<>>], [call |-> "ok", text |-> <<"!raises">>]}
        \cup {[call |-> "ok", text |-> t] : t \in ResponseTexts}

TextRaises(o) == o.call = "ok" /\ o.text = <<"!raises">>

\* no extraction call made (yet) for the current record
NoCall == [call |-> "none", text |-> <<>>]

\* What one routing call can do: generate_content raises, response.text
\* raises, the text holds YES, the text does not hold YES.
RouterOutcomes == {"call_raises", "text_raises", "yes", "no"}

VARIABLES
    ledger,              \* table documents, as committed: pdf_id -> row
    dirty,               \* a connection holds a write it has not committed
    apc,                 \* acquisition script: "idle" | "loop"
    items,               \* acquisition script: the listed files
    aidx,                \* acquisition script: position in items
    listing_failed,      \* acquisition script: the listing raised HttpError
    last_item,           \* acquisition script: what was done with the latest item
    pc,                  \* analysis script: position
    records_to_process,  \* analysis script: the rows fetched at line 99
    idx,                 \* analysis script: position in records_to_process
    relevant,            \* analysis script: result of is_document_relevant
    structured_data,     \* analysis script: result of extract_structured_data
    router_outcome,      \* what the routing call of the current record did
    service_outcome,     \* what the extraction call of the current record did
    routeCalls,          \* routing calls issued by the current/last run
    extractCalls,        \* extraction calls issued by the current/last run
    writeCalls,          \* status writes made by the current/last run
    slept,               \* the delay of line 123 has passed since the last write
    changed,             \* the current/last analysis run altered the Ledger
    startAllComplete,    \* every row was gemini_complete when the run fetched
    left_error,          \* rows in gemini_error when the last run ended
    rpc,                 \* main.py: position
    pdf_paths,           \* main.py: list_pdfs(input_dir)
    ocr,                 \* main.py: args.ocr
    ocr_available,       \* main.py: _lazy_import_ocr() succeeds
    pdf_i,               \* main.py: position in pdf_paths
    cands,               \* main.py: candidate blocks of the current file
    blk_i,               \* main.py: position in cands
    rows,                \* main.py: the accumulated output rows
    snipf,               \* main.py: the lines written to --out_snippets
    exit_code,           \* main.py: exit status of the process, -1 while it runs
    seen,                \* the candidate blocks processed so far
    failures,            \* the per-file failures met so far
    tpc,                 \* text functions: position
    t_case,              \* text functions: how the page text was made
    t_text,              \* text functions: the text of the page
    t_cands,             \* text functions: find_candidate_blocks of the page
    t_fields,            \* text functions: extract_fields of the block
    opc,                 \* OCR fallback of one file: position
    o_direct,            \* OCR fallback: the pages pdfminer gave
    o_pages,             \* OCR fallback: pages (line 176, then line 181)
    ocr_called           \* OCR fallback: ocr_pdf_pages was called

ruleVars == <<rpc, pdf_paths, ocr, ocr_available, pdf_i, cands, blk_i, rows,
              snipf, exit_code, seen, failures>>

acqVars == <<apc, items, aidx, listing_failed, last_item>>
runVars == <<pc, records_to_process, idx, relevant, structured_data,
             router_outcome, service_outcome, routeCalls, extractCalls, writeCalls, slept,
             changed, startAllComplete, left_error>>
ledgerVars == <<ledger, dirty, acqVars, runVars>>

textVars == <<tpc, t_case, t_text, t_cands, t_fields, opc, o_direct, o_pages,
              ocr_called>>

vars == <<ledgerVars, ruleVars, textVars>>

Row(status, ocr_text, gemini_status, gemini_json) ==
    [status |-> status, ocr_text |-> ocr_text,
     gemini_status |-> gemini_status, gemini_json |-> gemini_json]

\* rows whose analysis status is s
WithGeminiStatus(s) == {d \in DOMAIN ledger : ledger[d].gemini_status = s}

\* no item of the acquisition loop handled (yet)
NoItem == [d |-> 0, prev |-> "none", outcome |-> "none"]

\* no Ledger, no script running
LedgerInit ==
    /\ ledger = <<>>
    /\ dirty = FALSE
    /\ apc = "idle"
    /\ items = <<>>
    /\ aidx = 1
    /\ listing_failed = FALSE
    /\ last_item = NoItem
    /\ pc = "idle"
    /\ records_to_process = <<>>
    /\ idx = 1
    /\ relevant = FALSE
    /\ structured_data = NullJson
    /\ router_outcome = "none"
    /\ service_outcome = NoCall
    /\ routeCalls = 0
    /\ extractCalls = 0
    /\ writeCalls = 0
    /\ slept = FALSE
    /\ changed = FALSE
    /\ startAllComplete = FALSE
    /\ left_error = {}

\* main.py is not run
RulesOff ==
    /\ rpc = "off"
    /\ pdf_paths = <<>>
    /\ ocr = FALSE
    /\ ocr_available = FALSE
    /\ pdf_i = 1
    /\ cands = <<>>
    /\ blk_i = 1
    /\ rows = <<>>
    /\ snipf = <<>>
    /\ exit_code = -1
    /\ seen = <<>>
    /\ failures = {}

\* no text is handed to the text functions on their own
NoCase == [kind |-> "none"]

TextOff ==
    /\ tpc = "off"
    /\ t_case = NoCase
    /\ t_text = <<>>
    /\ t_cands = <<>>
    /\ t_fields = <<>>

\* no file is handed to the OCR fallback on its own
FallbackOff ==
    /\ opc = "off"
    /\ o_direct = <<>>
    /\ o_pages = <<>>
    /\ ocr_called = FALSE

Init == LedgerInit /\ RulesOff /\ TextOff /\ FallbackOff

\* no script is running
NoRun ==
    /\ apc \in {"idle", "killed"}
    /\ pc \in {"idle", "done", "crashed", "killed"}

(***************************************************************************)
(* extraction_testing.py: the acquisition script.                          *)
(***************************************************************************)
\* a connection that keeps its write in the open transaction
conn_no_commit(disk, written) == [disk |-> disk, dirty |-> TRUE]

\* conn.commit() (extraction_testing.py lines 139 and 149, extract_data.py
\* line 92): the table a connection has written becomes the committed
\* table, and the connection holds nothing uncommitted
conn_commit(disk, written) == [disk |-> written, dirty |-> FALSE]

\* INSERT OR REPLACE INTO documents (pdf_id, pdf_name, ocr_text, status):
\* the row of pdf_id is replaced whole, so the columns the statement does
\* not name (gemini_status, gemini_json) become NULL.
insert_or_replace(d, ocr_text, status) ==
    [x \in DOMAIN ledger \cup {d} |->
        IF x = d THEN Row(status, ocr_text, NULL, NullJson) ELSE ledger[x]]

\* what download + OCR of one file can do
AcquireOutcomes == {"ok", "download_raises", "ocr_raises"}

\* The analysis process that ran last is gone, and its locals with it; the
\* rows it left in gemini_error are remembered.
RunForgotten ==
    /\ pc' = "idle"
    /\ records_to_process' = <<>>
    /\ idx' = 1
    /\ relevant' = FALSE
    /\ structured_data' = NullJson
    /\ router_outcome' = "none"
    /\ service_outcome' = NoCall
    /\ routeCalls' = 0
    /\ extractCalls' = 0
    /\ writeCalls' = 0
    /\ slept' = FALSE
    /\ changed' = FALSE
    /\ startAllComplete' = FALSE
    /\ UNCHANGED left_error

\* lines 95-106: list the folder; an HttpError is printed and leaves items
\* empty
list_files ==
    /\ NoRun
    /\ \E S \in SUBSET Docs : \E s \in Orderings(S) : \E http_error \in BOOLEAN :
          /\ items' = IF http_error THEN <<>> ELSE s
          /\ listing_failed' = http_error
          /\ apc' = IF items' = <<>> THEN "idle" ELSE "loop"
    /\ aidx' = 1
    /\ last_item' = NoItem
    /\ RunForgotten
    /\ UNCHANGED <<ledger, dirty, ruleVars, textVars>>

\* a check that skips no file
never_processed(d) == FALSE

\* a check that skips every file that has a row
already_recorded(d) == d \in DOMAIN ledger

\* lines 108-117: a file whose row is ocr_complete is skipped
already_processed(d) == d \in DOMAIN ledger /\ ledger[d].status = "ocr_complete"

\* the acquisition status of a file before its iteration
StatusBefore(d) == IF d \in DOMAIN ledger THEN ledger[d].status ELSE "absent"

\* lines 108-149: one iteration of the loop over items
acquire_item ==
    /\ apc = "loop"
    /\ LET d == items[aidx] IN
          IF already_processed(d)
          THEN /\ UNCHANGED <<ledger, dirty>>
               /\ last_item' = [d |-> d, prev |-> StatusBefore(d), outcome |-> "skipped"]
          ELSE \E o \in AcquireOutcomes :
                  LET written == IF o = "ok"
                                 THEN insert_or_replace(d, "text", "ocr_complete")
                                 ELSE insert_or_replace(d, o, "ocr_error")
                  IN  /\ ledger' = conn_commit(ledger, written).disk
                      /\ dirty' = conn_commit(ledger, written).dirty
                      /\ last_item' = [d |-> d, prev |-> StatusBefore(d), outcome |-> o]
    /\ UNCHANGED listing_failed
    /\ IF aidx = Len(items)
       THEN apc' = "idle" /\ items' = <<>> /\ aidx' = 1    \* the script ends
       ELSE apc' = "loop" /\ items' = items /\ aidx' = aidx + 1
    /\ UNCHANGED <<runVars, ruleVars, textVars>>

(***************************************************************************)
(* extract_data.py: the analysis script.                                   *)
(***************************************************************************)
\* the SELECT without "OR gemini_status = 'gemini_error'"
fetch_only_new ==
    {d \in DOMAIN ledger :
        ledger[d].status = "ocr_complete" /\ ledger[d].gemini_status = NULL}

\* the SELECT without its gemini_status condition
fetch_all_acquired ==
    {d \in DOMAIN ledger : ledger[d].status = "ocr_complete"}

\* a SELECT that leaves out the gemini_complete rows only
fetch_unfinished ==
    {d \in DOMAIN ledger :
        ledger[d].status = "ocr_complete" /\ ledger[d].gemini_status # "gemini_complete"}

\* lines 22-31: the WHERE clause of the SELECT
fetch_records_to_process ==
    {d \in DOMAIN ledger :
        /\ ledger[d].status = "ocr_complete"
        /\ ledger[d].gemini_status \in {NULL, "gemini_error"}}

\* a router that lets a failed call through as relevant
router_fail_open(o) == o # "no"

\* lines 34-63: every failure inside the try is turned into False
is_document_relevant(o) ==
    CASE o = "call_raises" -> FALSE
      [] o = "text_raises" -> FALSE
      [] o = "yes"         -> TRUE
      [] o = "no"          -> FALSE

\* str.strip(): leading and trailing whitespace pieces removed
IsSpace(t) == t \in {" ", "\n"}

RECURSIVE LStrip(_)
LStrip(s) == IF s # <<>> /\ IsSpace(Head(s)) THEN LStrip(Tail(s)) ELSE s

RECURSIVE RStrip(_)
RStrip(s) ==
    IF s # <<>> /\ IsSpace(s[Len(s)]) THEN RStrip(SubSeq(s, 1, Len(s) - 1)) ELSE s

Strip(s) == LStrip(RStrip(s))

\* str.replace(piece, ''): every occurrence of the piece removed
Remove(s, piece) == SelectSeq(s, LAMBDA t : t # piece)

\* the documents json.loads accepts, and the Python value of each
JsonDocs == {"{mw}", "{error}", "[error]", "5"}

Decode(t) ==
    CASE t = "{mw}"    -> Value("dict", {"mw"}, <<>>)
      [] t = "{error}" -> Value("dict", {"error"}, <<>>)
      [] t = "[error]" -> Value("list", {"error"}, <<>>)
      [] t = "5"       -> Value("scalar", {}, <<>>)

\* json.loads: whitespace around the one document is skipped; anything
\* else raises
JsonBody(s) == SelectSeq(s, LAMBDA t : ~IsSpace(t))

JsonLoadsRaises(s) == ~(Len(JsonBody(s)) = 1 /\ JsonBody(s)[1] \in JsonDocs)

JsonLoads(s) == Decode(JsonBody(s)[1])

\* line 82: the error envelope {"error": ..., "raw_response": ...}
Envelope(raw) == Value("dict", {"error", "raw_response"}, raw)

\* lines 66-82: [raised |-> an exception leaves the function, value |-> the
\* value returned otherwise].  The except clause reads response.text again
\* whenever generate_content returned, so a response whose text accessor
\* raises makes the handler raise in turn.
extract_structured_data(o) ==
    IF o.call = "raises"
    THEN [raised |-> FALSE, value |-> Envelope(NoResponse)]
    ELSE IF TextRaises(o)
    THEN [raised |-> TRUE, value |-> NullJson]
    ELSE LET json_string == Remove(Remove(Strip(o.text), "FENCE_JSON"), "FENCE") IN
         IF JsonLoadsRaises(json_string)
         THEN [raised |-> FALSE, value |-> Envelope(o.text)]
         ELSE [raised |-> FALSE, value |-> JsonLoads(json_string)]

\* line 116: 'error' in structured_data.  A dict is searched by key, a list
\* by element, a str by substring; any other value raises TypeError.
InRaises(v) == v.kind \notin {"dict", "list", "str"}

ErrorIn(v) == "error" \in v.items

\* line 116: the status handed to update_database_with_result
StatusOf(v) == IF ErrorIn(v) THEN "gemini_error" ELSE "gemini_complete"

\* an UPDATE that stores the payload of a gemini_complete result only
update_result_when_complete(d, json_result, status) ==
    [ledger EXCEPT ![d] = [@ EXCEPT !.gemini_json =
                                       IF status = "gemini_complete"
                                       THEN json_result ELSE NullJson,
                                    !.gemini_status = status]]

\* lines 85-92: UPDATE documents SET gemini_json, gemini_status WHERE pdf_id;
\* the column holds json.dumps(json_result), which json_result determines
update_database_with_result(d, json_result, status) ==
    [ledger EXCEPT ![d] = [@ EXCEPT !.gemini_json = json_result,
                                    !.gemini_status = status]]

\* the rows in gemini_error once the Ledger is L
ErrorRows(L) == {d \in DOMAIN L : L[d].gemini_status = "gemini_error"}

\* lines 97-99: connect and fetch the ready rows (in the order SQLite
\* returns them, which the SELECT does not fix)
Fetch ==
    /\ NoRun
    /\ \E s \in Orderings(fetch_records_to_process) : records_to_process' = s
    /\ pc' = "fetched"
    /\ idx' = 1
    /\ relevant' = FALSE
    /\ structured_data' = NullJson
    /\ router_outcome' = "none"
    /\ service_outcome' = NoCall
    /\ routeCalls' = 0
    /\ extractCalls' = 0
    /\ writeCalls' = 0
    /\ slept' = FALSE
    /\ changed' = FALSE
    /\ startAllComplete' =
          (DOMAIN ledger # {} /\ WithGeminiStatus("gemini_complete") = DOMAIN ledger)
    /\ listing_failed' = FALSE
    /\ last_item' = NoItem
    /\ UNCHANGED <<ledger, dirty, apc, items, aidx, left_error, ruleVars, textVars>>

\* lines 101-104 (and 125-126 when there is nothing to do)
CheckRecords ==
    /\ pc = "fetched"
    /\ IF records_to_process = <<>>
       THEN pc' = "done" /\ left_error' = ErrorRows(ledger)
       ELSE pc' = "route" /\ UNCHANGED left_error
    /\ UNCHANGED <<ledger, dirty, acqVars, records_to_process, idx, relevant,
                   structured_data, router_outcome, service_outcome,
                   routeCalls, extractCalls, writeCalls, changed, startAllComplete,
                   slept, ruleVars, textVars>>

\* a loop that calls the extraction engine whatever the router answered
RouteUngated ==
    /\ pc = "route"
    /\ \E o \in RouterOutcomes :
          /\ router_outcome' = o
          /\ relevant' = is_document_relevant(o)
    /\ routeCalls' = routeCalls + 1
    /\ service_outcome' = NoCall
    /\ structured_data' = NullJson
    /\ pc' = "extract"
    /\ UNCHANGED <<ledger, dirty, acqVars, records_to_process, idx, extractCalls,
                   writeCalls, slept,
                   changed, startAllComplete, left_error, ruleVars, textVars>>

\* line 112: the routing call for the current record
Route ==
    /\ pc = "route"
    /\ \E o \in RouterOutcomes :
          /\ router_outcome' = o
          /\ relevant' = is_document_relevant(o)
    /\ routeCalls' = routeCalls + 1
    /\ service_outcome' = NoCall
    /\ structured_data' = NullJson
    /\ pc' = IF relevant' THEN "extract" ELSE "update"
    /\ UNCHANGED <<ledger, dirty, acqVars, records_to_process, idx, extractCalls,
                   writeCalls, slept,
                   changed, startAllComplete, left_error, ruleVars, textVars>>

\* line 114: the extraction call; an exception that leaves
\* extract_structured_data leaves the script, nothing in the loop catches it
Extract ==
    /\ pc = "extract"
    /\ \E o \in ServiceOutcomes :
          /\ service_outcome' = o
          /\ LET r == extract_structured_data(o) IN
                IF r.raised
                THEN /\ pc' = "crashed"
                     /\ left_error' = ErrorRows(ledger)
                     /\ UNCHANGED structured_data
                ELSE /\ pc' = "update"
                     /\ structured_data' = r.value
                     /\ UNCHANGED left_error
    /\ extractCalls' = extractCalls + 1
    /\ UNCHANGED <<writeCalls, slept>>
    /\ UNCHANGED <<ledger, dirty, acqVars, records_to_process, idx, relevant,
                   router_outcome, routeCalls, changed, startAllComplete, ruleVars, textVars>>

\* lines 115-117 and 120-121: the status write of the current record
Update ==
    /\ pc = "update"
    /\ LET d == records_to_process[idx] IN
          IF relevant /\ InRaises(structured_data)
          THEN /\ pc' = "crashed"
               /\ left_error' = ErrorRows(ledger)
               /\ UNCHANGED <<ledger, dirty, changed, writeCalls, slept>>
          ELSE /\ LET written == IF relevant
                                 THEN update_database_with_result(
                                          d, structured_data, StatusOf(structured_data))
                                 ELSE update_database_with_result(
                                          d, IrrelevantMarker, "irrelevant")
                  IN  /\ ledger' = conn_commit(ledger, written).disk
                      /\ dirty' = conn_commit(ledger, written).dirty
               /\ changed' = (changed \/ ledger' # ledger)
               /\ writeCalls' = writeCalls + 1
               /\ slept' = FALSE
               /\ pc' = "sleep"
               /\ UNCHANGED left_error
    /\ UNCHANGED <<acqVars, records_to_process, idx, relevant, structured_data,
                   router_outcome, service_outcome, routeCalls, extractCalls,
                   startAllComplete, ruleVars, textVars>>

\* a loop that goes to the next record without the delay
NoSleep ==
    /\ pc = "sleep"
    /\ idx' = idx + 1
    /\ UNCHANGED slept
    /\ IF idx = Len(records_to_process)
       THEN pc' = "done" /\ left_error' = ErrorRows(ledger)
       ELSE pc' = "route" /\ UNCHANGED left_error
    /\ UNCHANGED <<ledger, dirty, acqVars, records_to_process, relevant,
                   structured_data, router_outcome, service_outcome,
                   routeCalls, extractCalls, writeCalls, changed, startAllComplete,
                   ruleVars, textVars>>

\* line 123, then the next record or lines 125-126
Sleep ==
    /\ pc = "sleep"
    /\ idx' = idx + 1
    /\ slept' = TRUE
    /\ IF idx = Len(records_to_process)
       THEN pc' = "done" /\ left_error' = ErrorRows(ledger)
       ELSE pc' = "route" /\ UNCHANGED left_error
    /\ UNCHANGED <<ledger, dirty, acqVars, records_to_process, relevant,
                   structured_data, router_outcome, service_outcome,
                   routeCalls, extractCalls, writeCalls, changed, startAllComplete,
                   ruleVars, textVars>>

Next ==
    \/ list_files
    \/ acquire_item
    \/ Fetch
    \/ CheckRecords
    \/ Route
    \/ Extract
    \/ Update
    \/ Sleep

Spec == Init /\ [][Next]_vars

(***************************************************************************)
(* The two scripts, terminated from outside at any point.                  *)
(***************************************************************************)
\* The acquisition script is terminated inside its loop.  What a connection
\* has not committed is rolled back by SQLite; a termination between an
\* execute and its commit therefore leaves the table as a termination
\* before the execute does.
KillAcquisition ==
    /\ apc = "loop"
    /\ apc' = "killed"
    /\ items' = <<>>
    /\ aidx' = 1
    /\ dirty' = FALSE
    /\ UNCHANGED <<ledger, listing_failed, last_item, runVars, ruleVars, textVars>>

\* The analysis script is terminated between lines 99 and 125; its locals
\* are gone.
KillAnalysis ==
    /\ pc \in {"fetched", "route", "extract", "update", "sleep"}
    /\ pc' = "killed"
    /\ records_to_process' = <<>>
    /\ idx' = 1
    /\ relevant' = FALSE
    /\ structured_data' = NullJson
    /\ router_outcome' = "none"
    /\ service_outcome' = NoCall
    /\ left_error' = ErrorRows(ledger)
    /\ dirty' = FALSE
    /\ slept' = FALSE
    /\ UNCHANGED <<ledger, acqVars, routeCalls, extractCalls, writeCalls, changed,
                   startAllComplete, ruleVars, textVars>>

CrashNext ==
    \/ Next
    \/ KillAcquisition
    \/ KillAnalysis

SpecCrash == Init /\ [][CrashNext]_vars

(***************************************************************************)
(* main.py: page texts.                                                    *)
(***************************************************************************)
\* A text is a sequence of lexical pieces: words, numbers of at most three
\* digits, single punctuation marks and single whitespace characters.
\* Lexicon: <<piece, its lower-case form, its length in characters, class>>.
\* PROSE stands for 500 characters of running prose holding none of the
\* words, marks or digits the patterns look for.
Lexicon ==
    { <<"Applicant", "applicant", 9, "word">>, <<"Acme", "acme", 4, "word">>,
      <<"Solar", "solar", 5, "word">>,         <<"solar", "solar", 5, "word">>,
      <<"LLC", "llc", 3, "word">>,             <<"MW", "mw", 2, "word">>,
      <<"acres", "acres", 5, "word">>,         <<"Parcel", "parcel", 6, "word">>,
      <<"approved", "approved", 8, "word">>,   <<"Minutes", "minutes", 7, "word">>,
      <<"ordinance", "ordinance", 9, "word">>, <<"vote", "vote", 4, "word">>,
      <<"Ayes", "ayes", 4, "word">>,           <<"Nays", "nays", 4, "word">>,
      <<"because", "because", 7, "word">>,     <<"traffic", "traffic", 7, "word">>,
      <<"Board", "board", 5, "word">>,         <<"The", "the", 3, "word">>,
      <<"PROSE", "prose", 500, "word">>,
      <<"Beta", "beta", 4, "word">>,           <<"facility", "facility", 8, "word">>,
      <<"on", "on", 2, "word">>,               <<"approval", "approval", 8, "word">>,
      <<"recommended", "recommended", 11, "word">>,
      <<"concerns", "concerns", 8, "word">>,   <<"noise", "noise", 5, "word">>,
      <<"56", "56", 2, "num">>,   <<"60", "60", 2, "num">>,
      <<"45", "45", 2, "num">>,   <<"120", "120", 3, "num">>,
      <<"12", "12", 2, "num">>,   <<"34", "34", 2, "num">>,
      <<"4", "4", 1, "num">>,     <<"1", "1", 1, "num">>,
      <<":", ":", 1, "punct">>,   <<"-", "-", 1, "punct">>,
      <<".", ".", 1, "punct">>,   <<",", ",", 1, "punct">>,
      <<" ", " ", 1, "space">>,   <<"\t", "\t", 1, "space">>,
      <<"\n", "\n", 1, "space">> }

Entry(t) == CHOOSE e \in Lexicon : e[1] = t
Lower(t) == Entry(t)[2]
TokLen(t) == Entry(t)[3]
Class(t) == Entry(t)[4]

\* len(text), in characters
RECURSIVE CharLen(_)
CharLen(s) == IF s = <<>> THEN 0 ELSE TokLen(Head(s)) + CharLen(Tail(s))

\* \s of the patterns
IsWs(t) == Class(t) = "space"

\* str.strip()
RECURSIVE LStripText(_)
LStripText(s) == IF s # <<>> /\ IsWs(Head(s)) THEN LStripText(Tail(s)) ELSE s

RECURSIVE RStripText(_)
RStripText(s) ==
    IF s # <<>> /\ IsWs(s[Len(s)]) THEN RStripText(SubSeq(s, 1, Len(s) - 1)) ELSE s

StripText(s) == LStripText(RStripText(s))

\* text[:n]: the longest prefix of whole pieces of at most n characters
RECURSIVE Prefix(_, _)
Prefix(s, n) ==
    IF s = <<>> \/ TokLen(Head(s)) > n THEN <<>>
    ELSE <<Head(s)>> \o Prefix(Tail(s), n - TokLen(Head(s)))

\* the least and the greatest element of a non-empty set of integers
Min(S) == CHOOSE x \in S : \A y \in S : x <= y
Max(S) == CHOOSE x \in S : \A y \in S : x >= y

\* the least index at or after i whose piece satisfies P, else Len(s)+1
Scan(s, i, P(_)) == Min({j \in i..Len(s) : P(s[j])} \cup {Len(s) + 1})

NotWs(t) == ~IsWs(t)
IsNewline(t) == t = "\n"

\* \s*: the index after the whitespace that starts at i
SkipWs(s, i) == Scan(s, i, NotWs)

\* the index of the newline that ends the line of position i, else Len(s)+1
LineEnd(s, i) == Scan(s, i, IsNewline)

\* the lower-case form of the piece at i, "" beyond the text
At(s, i) == IF i \in 1..Len(s) THEN Lower(s[i]) ELSE ""

\* \b before / after the piece at i: the neighbour is no word character
IsWordy(t) == Class(t) \in {"word", "num"}
WordStart(s, i) == i = 1 \/ ~IsWordy(s[i - 1])
WordEnd(s, i) == i = Len(s) \/ ~IsWordy(s[i + 1])

\* a search that keeps the last position at which the pattern matches
Rightmost(hits) == Max(hits)

\* re.search: of the positions at which the pattern matches, the first
Leftmost(hits) == Min(hits)

NoMatch == [ok |-> FALSE, value |-> <<>>]
Match(v) == [ok |-> TRUE, value |-> v]

\* the first (leftmost) match of a pattern: MatchAt(i) is its match
\* starting at piece i
FirstMatch(s, MatchAt(_)) ==
    LET hits == {i \in 1..Len(s) : MatchAt(i).ok} IN
        IF hits = {} THEN NoMatch ELSE MatchAt(Leftmost(hits))

\* \s*[:\-]\s*(class{min,max}) from piece j on.  \s* is greedy and gives
\* whitespace back, one character at a time, while the value is too short:
\* the value starts at the last position of the whitespace from which the
\* run of class characters has min characters.
ValueAfter(s, j, InClass(_), min, max) ==
    LET k == SkipWs(s, j)
        v0 == k + 1
        v == SkipWs(s, v0)
        NotInClass(t) == ~InClass(t)
        Run(p) == SubSeq(s, p, Scan(s, p, NotInClass) - 1)
        starts == {p \in v0..v : CharLen(Run(p)) >= min}
    IN  IF k > Len(s) \/ s[k] \notin {":", "-"} \/ starts = {}
        THEN NoMatch
        ELSE Match(StripText(Prefix(Run(Max(starts)), max)))

\* [A-Z0-9\-\&\.,' ] under re.I
InNameClass(t) == IsWordy(t) \/ t \in {"-", "&", ".", ",", "'", " "}

\* [^\n]
InLineClass(t) == t # "\n"

\* line 94: \b(Applicant|Application|Project)\s*[:\-]\s*([A-Z0-9\-\&\.,' ]{5,120})
ApplicantAt(s, i) ==
    IF At(s, i) \in {"applicant", "application", "project"} /\ WordStart(s, i)
    THEN ValueAfter(s, i + 1, InNameClass, 5, 120)
    ELSE NoMatch

\* lines 98 and 102: (number)\s*unit\b
QuantityAt(s, i, Units) ==
    IF Class(s[i]) = "num" /\ At(s, SkipWs(s, i + 1)) \in Units
                           /\ WordEnd(s, SkipWs(s, i + 1))
    THEN Match(<<s[i]>>)
    ELSE NoMatch

\* line 106: the piece after the label Location|Address|Parcel|Tax\s*Map|GPIN|PIN
LocationLabelEnd(s, i) ==
    IF At(s, i) \in {"location", "address", "parcel", "taxmap", "gpin", "pin"}
    THEN i + 1
    ELSE IF At(s, i) = "tax" /\ At(s, SkipWs(s, i + 1)) = "map"
    THEN SkipWs(s, i + 1) + 1
    ELSE 0

\* line 106: \b(label)\s*[:\-]\s*([^\n]{5,160})
LocationAt(s, i) ==
    IF LocationLabelEnd(s, i) # 0 /\ WordStart(s, i)
    THEN ValueAfter(s, LocationLabelEnd(s, i), InLineClass, 5, 160)
    ELSE NoMatch

\* line 110: \b(approved|denied|recommend(ed)?\s+approval|recommend(ed)?\s+denial)\b
OutcomeAt(s, i) ==
    LET k == SkipWs(s, i + 1) IN
    IF ~WordStart(s, i) THEN NoMatch
    ELSE IF At(s, i) \in {"approved", "denied"} /\ WordEnd(s, i)
    THEN Match(<<s[i]>>)
    ELSE IF /\ At(s, i) \in {"recommend", "recommended"}
            /\ k > i + 1
            /\ At(s, k) \in {"approval", "denial"}
            /\ WordEnd(s, k)
    THEN Match(SubSeq(s, i, k))
    ELSE NoMatch

\* the index of the first piece after piece i that is no whitespace
Following(s, i) == SkipWs(s, i + 1)

\* line 114: (?:was\s*)? and (?:taken)? from piece a on
AfterWas(s, a) == IF At(s, a) = "was" THEN SkipWs(s, a + 1) ELSE a
AfterTaken(s, a) == IF At(s, a) = "taken" THEN a + 1 ELSE a

\* line 114: (?:\s*and\s*the\s*result[s]?\s*were)? from piece a on, the
\* first piece after the whitespace at a being w
AfterResults(s, a, w) ==
    IF /\ At(s, w) = "and"
       /\ At(s, Following(s, w)) = "the"
       /\ At(s, Following(s, Following(s, w))) \in {"result", "results"}
       /\ At(s, Following(s, Following(s, Following(s, w)))) = "were"
    THEN Following(s, Following(s, Following(s, w))) + 1
    ELSE a

\* line 114: the index after the head
\*   roll\s*call\s*vote | vote\s*(was\s*)?(taken)?(\s*and\s*the\s*results?\s*were)?
\* that starts at piece i, 0 when none does
VoteHeadEnd(s, i) ==
    IF /\ At(s, i) = "roll"
       /\ At(s, Following(s, i)) = "call"
       /\ At(s, Following(s, Following(s, i))) = "vote"
    THEN Following(s, Following(s, i)) + 1
    ELSE IF At(s, i) # "vote" THEN 0
    ELSE AfterResults(s, AfterTaken(s, AfterWas(s, Following(s, i))),
                      SkipWs(s, AfterTaken(s, AfterWas(s, Following(s, i)))))

\* line 114: [:\-]?\s* from piece b on
AfterMark(s, b) == SkipWs(s, IF b <= Len(s) /\ s[b] \in {":", "-"} THEN b + 1 ELSE b)

\* line 114: the text matched from piece i on, d being the piece at which
\* [^\n]{0,140} starts
VoteValue(s, i, d) ==
    StripText(SubSeq(s, i, d - 1) \o Prefix(SubSeq(s, d, LineEnd(s, d) - 1), 140))

\* line 114: head \s*[:\-]?\s*[^\n]{0,140}
VoteLineAt(s, i) ==
    IF VoteHeadEnd(s, i) = 0 THEN NoMatch
    ELSE Match(VoteValue(s, i, AfterMark(s, SkipWs(s, VoteHeadEnd(s, i)))))

\* lines 118-119: \b(label)\s*[:\-]\s*([^\n]+)
TallyAt(s, i, Labels) ==
    IF At(s, i) \in Labels /\ WordStart(s, i)
    THEN ValueAfter(s, i + 1, InLineClass, 1, CharLen(s))
    ELSE NoMatch

\* line 126: \b(concern|because|due to|reason|finding|...), with \b before
\* the word and nothing after it: a vocabulary word starts at piece q
DueTo(s, q) == At(s, q) = "due" /\ At(s, q + 1) = " " /\ At(s, q + 2) = "to"

VocabAt(s, q) ==
    /\ WordStart(s, q)
    /\ \/ At(s, q) \in {"concern", "concerns", "because", "reason", "reasons",
                        "finding", "findings"}
       \/ DueTo(s, q)

\* the characters between the end of the vocabulary word that starts at
\* piece q and piece r
AfterVocab(s, q, r) ==
    IF DueTo(s, q) THEN CharLen(SubSeq(s, q + 3, r - 1))
    ELSE CharLen(SubSeq(s, q + 1, r - 1))
            + (IF At(s, q) \in {"concerns", "reasons", "findings"} THEN 1 ELSE 0)

IsDot(t) == t = "."

\* line 126: ([^.]{0,140}\b(vocabulary)[^.]{0,140})\.  The match that starts
\* at piece p ends at the first full stop after p.
ReasonAt(s, p) ==
    LET r == Scan(s, p, IsDot)
        ok(q) == /\ VocabAt(s, q)
                 /\ CharLen(SubSeq(s, p, q - 1)) <= 140
                 /\ AfterVocab(s, q, r) <= 140
    IN  IF r <= Len(s) /\ \E q \in p..(r - 1) : ok(q)
        THEN [ok |-> TRUE, value |-> StripText(SubSeq(s, p, r)), next |-> r + 1]
        ELSE [ok |-> FALSE, value |-> <<>>, next |-> p + 1]

\* a loop over the matches that is never left early
RECURSIVE ReasonsUncapped(_, _, _)
ReasonsUncapped(s, p, found) ==
    IF p > Len(s) THEN found
    ELSE IF ReasonAt(s, p).ok
    THEN ReasonsUncapped(s, ReasonAt(s, p).next, Append(found, ReasonAt(s, p).value))
    ELSE ReasonsUncapped(s, p + 1, found)

\* lines 125-129: re.finditer from piece p on, stopped at the third match
RECURSIVE Reasons(_, _, _)
Reasons(s, p, found) ==
    IF p > Len(s) \/ Len(found) >= 3 THEN found
    ELSE IF ReasonAt(s, p).ok
    THEN Reasons(s, ReasonAt(s, p).next, Append(found, ReasonAt(s, p).value))
    ELSE Reasons(s, p + 1, found)

\* lines 90-132: the fields found in a candidate text, as a mapping from
\* the keys set to their values
extract_fields(text) ==
    LET applicant(i) == ApplicantAt(text, i)
        mw(i) == QuantityAt(text, i, {"mw"})
        acres(i) == QuantityAt(text, i, {"acre", "acres"})
        location(i) == LocationAt(text, i)
        outcome(i) == OutcomeAt(text, i)
        vote(i) == VoteLineAt(text, i)
        ayes(i) == TallyAt(text, i, {"aye", "ayes", "yea", "yeas"})
        nays(i) == TallyAt(text, i, {"nay", "nays", "no", "nos"})
        reasons == Reasons(text, 1, <<>>)
        found == [project_or_applicant |-> FirstMatch(text, applicant),
                  mw |-> FirstMatch(text, mw),
                  acres |-> FirstMatch(text, acres),
                  location |-> FirstMatch(text, location),
                  outcome_phrase |-> FirstMatch(text, outcome),
                  vote_line |-> FirstMatch(text, vote),
                  ayes |-> FirstMatch(text, ayes),
                  nays |-> FirstMatch(text, nays),
                  decision_factor_snippets |->
                      [ok |-> reasons # <<>>, value |-> reasons]]
    IN  [k \in {f \in DOMAIN found : found[f].ok} |-> found[k].value]

\* line 85: re.sub(r"[ \t]+", " ", txt)
RECURSIVE Normalize(_)
Normalize(s) ==
    IF s = <<>> THEN <<>>
    ELSE IF Head(s) \in {" ", "\t"}
    THEN IF Len(s) > 1 /\ s[2] \in {" ", "\t"}
         THEN Normalize(Tail(s))
         ELSE <<" ">> \o Normalize(Tail(s))
    ELSE <<Head(s)>> \o Normalize(Tail(s))

\* line 86: the topical keyword filter, under re.I
\*   Conditional\s+Use\s+Permit|Special\s+Use\s+Permit|Solar\b|Photovoltaic|2232
HasKeyword(t) ==
    \E i \in 1..Len(t) :
        LET u == SkipWs(t, i + 1)
            p == SkipWs(t, u + 1)
        IN  \/ At(t, i) = "solar" /\ WordEnd(t, i)
            \/ At(t, i) \in {"photovoltaic", "2232"}
            \/ /\ At(t, i) \in {"conditional", "special"}
               /\ u > i + 1 /\ At(t, u) = "use"
               /\ p > u + 1 /\ At(t, p) = "permit"

\* lines 78-88: the pages that pass the filter, with their normalized text
RECURSIVE find_candidate_blocks(_)
find_candidate_blocks(pages) ==
    IF pages = <<>> THEN <<>>
    ELSE LET p == Head(pages)
             t == Normalize(p.text)
             rest == find_candidate_blocks(Tail(pages))
         IN  IF StripText(p.text) # <<>> /\ HasKeyword(t)
             THEN <<[page |-> p.page_number, text |-> t]>> \o rest
             ELSE rest


(***************************************************************************)
(* main.py: the rule-based run.                                            *)
(***************************************************************************)
\* line 178: the number of characters under which OCR is tried
OCR_MIN_CHARS == 500

\* line 207: the length a snippet is cut to
SNIPPET_CHARS == 1000

\* The texts a page can carry.
PageTexts ==
    { <<" ", "\n">>,                                  \* whitespace only
      <<"Solar", " ", "ordinance">>,                  \* keyword, no field
      <<"Applicant", ":", " ", "Acme", " ", "Solar", " ", "LLC", "\n",
        "45", " ", "MW">>,                            \* keyword and fields
      <<"PROSE", " ", " ", "approved", ".">> }        \* long; a field, no keyword

\* The texts OCR can read from a page.
OcrTexts ==
    { <<"Solar", " ", "ordinance">>,
      <<"The", " ", "Board", " ", "approved", " ", "120", " ", "acres", " ",
        "solar">> }

\* the sequences of at most n elements of S
SeqUpTo(S, n) == UNION {[1..k -> S] : k \in 0..n}

\* What pdfminer can do with a file: fail, or give the text of each page.
ParseOutcomes ==
    {[fails |-> TRUE, texts |-> <<>>]}
        \cup {[fails |-> FALSE, texts |-> t] : t \in SeqUpTo(PageTexts, MaxPages)}

\* What ocr_pdf_pages (lines 51-76) can do with a file: raise, or give one
\* text per page.
OcrOutcomes ==
    {[fails |-> TRUE, texts |-> <<>>]}
        \cup {[fails |-> FALSE, texts |-> t] : t \in SeqUpTo(OcrTexts, MaxPages)}

\* texts numbered from 1, as lines 46 and 181 number them
Numbered(texts) ==
    [i \in 1..Len(texts) |-> [page_number |-> i, text |-> texts[i]]]

\* lines 36-49 and 176: res.get("pages", []) of extract_pdf_text_per_page
extract_pdf_text_per_page(o) == IF o.fails THEN <<>> ELSE Numbered(o.texts)

\* sum(len(p.get('text') or "") for p in pages)
RECURSIVE TotalChars(_)
TotalChars(pages) ==
    IF pages = <<>> THEN 0 ELSE CharLen(Head(pages).text) + TotalChars(Tail(pages))

\* line 178: the condition under which OCR is tried
NeedsOcr(pages) == ocr /\ (pages = <<>> \/ TotalChars(pages) < OCR_MIN_CHARS)

\* lines 179-184: the pages after the OCR fallback
after_ocr(pages, o) == IF o.fails THEN pages ELSE Numbered(o.texts)

\* lines 195-202: the output row of a block
Record(name, blk, fields) == [filename |-> name, page |-> blk.page, fields |-> fields]

\* an audit log that loses the line
SnippetLost(f, name, blk) == f

\* lines 204-209: the audit log after the line of a block is written
WriteSnippet(f, name, blk) ==
    Append(f, [filename |-> name, page |-> blk.page,
               text_snippet |-> Prefix(blk.text, SNIPPET_CHARS)])

\* an empty input set that does not end the run
DiscoverNoExit ==
    /\ rpc = "start"
    /\ rpc' = "check_ocr"
    /\ UNCHANGED <<pdf_paths, ocr, ocr_available, pdf_i, cands, blk_i, rows,
                   snipf, exit_code, seen, failures, ledgerVars, textVars>>

\* lines 157-160: no PDF file found ends the process with status 1
Discover ==
    /\ rpc = "start"
    /\ IF pdf_paths = <<>>
       THEN rpc' = "exit" /\ exit_code' = 1
       ELSE rpc' = "check_ocr" /\ UNCHANGED exit_code
    /\ UNCHANGED <<pdf_paths, ocr, ocr_available, pdf_i, cands, blk_i, rows,
                   snipf, seen, failures, ledgerVars, textVars>>

\* lines 163-172: --ocr without the OCR modules ends the process with
\* status 2; otherwise rows is empty and the audit log is opened, truncated
CheckOcr ==
    /\ rpc = "check_ocr"
    /\ IF ocr /\ ~ocr_available
       THEN rpc' = "exit" /\ exit_code' = 2
       ELSE rpc' = "loop" /\ UNCHANGED exit_code
    /\ rows' = <<>>
    /\ snipf' = <<>>
    /\ UNCHANGED <<pdf_paths, ocr, ocr_available, pdf_i, cands, blk_i, seen,
                   failures, ledgerVars, textVars>>

\* after the last block of a file, or a file without candidates: the next
\* file
NextPdf ==
    /\ pdf_i' = pdf_i + 1
    /\ rpc' = "loop"
    /\ cands' = <<>>
    /\ blk_i' = 1

\* lines 173-190: text extraction, OCR fallback and candidate detection of
\* the current file
ProcessPdf ==
    /\ rpc = "loop"
    /\ pdf_i <= Len(pdf_paths)
    /\ \E parse \in ParseOutcomes :
          LET pages == extract_pdf_text_per_page(parse) IN
          \E o \in IF NeedsOcr(pages) THEN OcrOutcomes ELSE {[fails |-> FALSE, texts |-> <<>>]} :
             LET final == IF NeedsOcr(pages) THEN after_ocr(pages, o) ELSE pages
                 found == find_candidate_blocks(final)
             IN  /\ failures' = failures
                        \cup (IF parse.fails THEN {"parse"} ELSE {})
                        \cup (IF NeedsOcr(pages) /\ o.fails THEN {"ocr"} ELSE {})
                 /\ IF found = <<>>
                    THEN NextPdf
                    ELSE /\ cands' = found
                         /\ blk_i' = 1
                         /\ rpc' = "blocks"
                         /\ UNCHANGED pdf_i
    /\ UNCHANGED <<pdf_paths, ocr, ocr_available, rows, snipf, exit_code, seen,
                   ledgerVars, textVars>>

\* lines 191-209: one candidate block of the current file
ProcessBlock ==
    /\ rpc = "blocks"
    /\ LET blk == cands[blk_i]
           name == pdf_paths[pdf_i]
           fields == extract_fields(blk.text)
       IN  /\ IF fields = <<>>
              THEN UNCHANGED <<rows, snipf>>
              ELSE /\ rows' = Append(rows, Record(name, blk, fields))
                   /\ snipf' = WriteSnippet(snipf, name, blk)
           /\ seen' = Append(seen, [filename |-> name, page |-> blk.page,
                                    empty |-> fields = <<>>])
    /\ IF blk_i = Len(cands)
       THEN NextPdf
       ELSE blk_i' = blk_i + 1 /\ UNCHANGED <<rpc, cands, pdf_i>>
    /\ UNCHANGED <<pdf_paths, ocr, ocr_available, exit_code, failures, ledgerVars, textVars>>

\* lines 215-218: the table is written and the process ends with status 0
WriteCsv ==
    /\ rpc = "loop"
    /\ pdf_i > Len(pdf_paths)
    /\ rpc' = "exit"
    /\ exit_code' = 0
    /\ UNCHANGED <<pdf_paths, ocr, ocr_available, pdf_i, cands, blk_i, rows,
                   snipf, seen, failures, ledgerVars, textVars>>

\* a run of main.py: the files found, the --ocr flag and the OCR modules
\* installed or not
RulesInit ==
    /\ LedgerInit
    /\ TextOff
    /\ FallbackOff
    /\ rpc = "start"
    /\ pdf_paths \in {[i \in 1..n |-> i] : n \in 0..MaxPdfs}
    /\ ocr \in BOOLEAN
    /\ ocr_available \in BOOLEAN
    /\ pdf_i = 1
    /\ cands = <<>>
    /\ blk_i = 1
    /\ rows = <<>>
    /\ snipf = <<>>
    /\ exit_code = -1
    /\ seen = <<>>
    /\ failures = {}

RulesNext ==
    \/ Discover
    \/ CheckOcr
    \/ ProcessPdf
    \/ ProcessBlock
    \/ WriteCsv

SpecRules == RulesInit /\ [][RulesNext]_vars

(***************************************************************************)
(* main.py: find_candidate_blocks and extract_fields on one page text.     *)
(***************************************************************************)
\* number of sentences of a page text
MaxSentences == 5

\* the concatenation of a sequence of texts
RECURSIVE Concat(_)
Concat(ts) == IF ts = <<>> THEN <<>> ELSE Head(ts) \o Concat(Tail(ts))

\* How a page text is made: its kind and the parts it is put together from.
Case(kind, parts) == [kind |-> kind, parts |-> parts]

\* The separator the scenario text is written with, where the scenario
\* shows "...": the three full stops themselves, or a line break.
Separator(name) ==
    IF name = "dots" THEN <<" ", ".", ".", ".", " ">> ELSE <<"\n">>

\* the scenario text: Applicant: Acme Solar LLC ... 45 MW solar facility on
\* 120 acres ... Parcel: 12-34-56 ... The Board recommended approval ...
\* Ayes: 4 Nays: 1
ScenarioText(sep) ==
    Concat(<< <<"Applicant", ":", " ", "Acme", " ", "Solar", " ", "LLC">>,
              Separator(sep),
              <<"45", " ", "MW", " ", "solar", " ", "facility", " ", "on", " ",
                "120", " ", "acres">>,
              Separator(sep),
              <<"Parcel", ":", " ", "12", "-", "34", "-", "56">>,
              Separator(sep),
              <<"The", " ", "Board", " ", "recommended", " ", "approval">>,
              Separator(sep),
              <<"Ayes", ":", " ", "4", " ", "Nays", ":", " ", "1">> >>)

\* a first line that makes every text a candidate
Heading == <<"Solar", " ", "ordinance", ".", "\n">>

\* The sentences: two that hold a word of the decision-factor vocabulary,
\* one that holds none, and one that holds such a word followed by more
\* than 140 characters before its full stop.
SentenceKinds == {"because", "concerns", "plain", "long"}

SentenceText(k) ==
    IF k = "because" THEN <<" ", "because", " ", "traffic", ".">>
    ELSE IF k = "concerns" THEN <<" ", "noise", " ", "concerns", ".">>
    ELSE IF k = "plain" THEN <<" ", "The", " ", "Board", ".">>
    ELSE <<" ", "because", " ", "PROSE", ".">>

SentencesText(kinds) ==
    Heading \o Concat([i \in 1..Len(kinds) |-> SentenceText(kinds[i])])

\* The fields of lines 93-108, a line that gives each a value, and the
\* value the line gives.
TieFields == {"project_or_applicant", "mw", "acres", "location"}

TieLine(f, v) ==
    IF f = "project_or_applicant"
    THEN <<"Applicant", ":", " ", (IF v = "x" THEN "Acme" ELSE "Beta"), " ",
           "Solar", " ", "LLC">>
    ELSE IF f = "mw" THEN <<(IF v = "x" THEN "45" ELSE "60"), " ", "MW">>
    ELSE IF f = "acres" THEN <<(IF v = "x" THEN "120" ELSE "60"), " ", "acres">>
    ELSE <<"Parcel", ":", " ", (IF v = "x" THEN "12" ELSE "34"), "-", "56">>

TieValue(f, v) ==
    IF f = "project_or_applicant"
    THEN <<(IF v = "x" THEN "Acme" ELSE "Beta"), " ", "Solar", " ", "LLC">>
    ELSE IF f = "mw" THEN <<(IF v = "x" THEN "45" ELSE "60")>>
    ELSE IF f = "acres" THEN <<(IF v = "x" THEN "120" ELSE "60")>>
    ELSE <<(IF v = "x" THEN "12" ELSE "34"), "-", "56">>

\* one labelled line, or two for the same field
TieText(f, v1, v2) ==
    Heading \o TieLine(f, v1)
            \o (IF v2 = "none" THEN <<>> ELSE <<"\n">> \o TieLine(f, v2))

Cases ==
    {Case("scenario", <<sep>>) : sep \in {"dots", "lines"}}
        \cup {Case("sentences", k) : k \in SeqUpTo(SentenceKinds, MaxSentences)}
        \cup {Case("tie", <<f, v1, v2>>) :
                 f \in TieFields, v1 \in {"x", "y"}, v2 \in {"x", "y", "none"}}

TextOf(c) ==
    IF c.kind = "scenario" THEN ScenarioText(c.parts[1])
    ELSE IF c.kind = "sentences" THEN SentencesText(c.parts)
    ELSE TieText(c.parts[1], c.parts[2], c.parts[3])

\* lines 186-188: the candidate blocks of a file whose one page holds the text
FindBlocks ==
    /\ tpc = "input"
    /\ t_cands' = find_candidate_blocks(Numbered(<<t_text>>))
    /\ tpc' = "found"
    /\ UNCHANGED <<t_case, t_text, t_fields, opc, o_direct, o_pages, ocr_called,
                   ledgerVars, ruleVars>>

\* lines 191-192: the fields of the first candidate block
ExtractBlock ==
    /\ tpc = "found"
    /\ t_cands # <<>>
    /\ t_fields' = extract_fields(t_cands[1].text)
    /\ tpc' = "extracted"
    /\ UNCHANGED <<t_case, t_text, t_cands, opc, o_direct, o_pages, ocr_called,
                   ledgerVars, ruleVars>>

TextInit ==
    /\ LedgerInit
    /\ RulesOff
    /\ FallbackOff
    /\ tpc = "input"
    /\ t_case \in Cases
    /\ t_text = TextOf(t_case)
    /\ t_cands = <<>>
    /\ t_fields = <<>>

TextNext ==
    \/ FindBlocks
    \/ ExtractBlock

SpecText == TextInit /\ [][TextNext]_vars

(***************************************************************************)
(* main.py: the OCR fallback of one file.                                  *)
(***************************************************************************)
\* number of pages of the file
MaxOcrPages == 2

\* line 178: OCR is tried or not
CheckTrigger ==
    /\ opc = "parsed"
    /\ ocr_called' = NeedsOcr(o_pages)
    /\ opc' = IF NeedsOcr(o_pages) THEN "ocr" ELSE "done"
    /\ UNCHANGED <<o_direct, o_pages, tpc, t_case, t_text, t_cands, t_fields,
                   ledgerVars, ruleVars>>

\* lines 179-184: the pages OCR gives replace those of pdfminer, all of
\* them; when OCR raises the pages stay
RunOcr ==
    /\ opc = "ocr"
    /\ \E o \in OcrOutcomes : o_pages' = after_ocr(o_pages, o)
    /\ opc' = "done"
    /\ UNCHANGED <<o_direct, ocr_called, tpc, t_case, t_text, t_cands, t_fields,
                   ledgerVars, ruleVars>>

\* a file as pdfminer read it (no page when it could not), --ocr given or
\* not, the OCR modules there
FallbackInit ==
    /\ LedgerInit
    /\ TextOff
    /\ rpc = "off"
    /\ pdf_paths = <<>>
    /\ ocr \in BOOLEAN
    /\ ocr_available = TRUE
    /\ pdf_i = 1
    /\ cands = <<>>
    /\ blk_i = 1
    /\ rows = <<>>
    /\ snipf = <<>>
    /\ exit_code = -1
    /\ seen = <<>>
    /\ failures = {}
    /\ opc = "parsed"
    /\ o_direct \in {Numbered(t) : t \in SeqUpTo(PageTexts, MaxOcrPages)}
    /\ o_pages = o_direct
    /\ ocr_called = FALSE

FallbackNext ==
    \/ CheckTrigger
    \/ RunOcr

SpecFallback == FallbackInit /\ [][FallbackNext]_vars

(***************************************************************************)
(* Properties of the Ledger and of the analysis script (under Spec).       *)
(***************************************************************************)
\* the record the analysis loop is at
Current == records_to_process[idx]

RouterFailed == router_outcome \in {"call_raises", "text_raises"}

\* the extraction call was made and the service call, the reading of the
\* response or its parsing failed
ExtractionFailed ==
    /\ service_outcome # NoCall
    /\ \/ service_outcome.call = "raises"
       \/ TextRaises(service_outcome)
       \/ JsonLoadsRaises(Remove(Remove(Strip(service_outcome.text), "FENCE_JSON"), "FENCE"))

\* C1 as stated: when a run has left records in gemini_error, the rows the
\* next run fetches are exactly those records, none of them gemini_complete.
Orig_C1 ==
    (pc = "fetched" /\ left_error # {}) =>
        /\ Range(records_to_process) = left_error
        /\ \A d \in Range(records_to_process) :
              ledger[d].gemini_status # "gemini_complete"

\* C1, amended: when a run has left records in gemini_error, the rows the
\* next run fetches include every one of those records, still in
\* gemini_error, and no gemini_complete or irrelevant row; any other fetched
\* row is an ocr_complete row never analysed (gemini_status NULL).
Thm_C1 ==
    (pc = "fetched" /\ left_error # {}) =>
        /\ left_error \subseteq Range(records_to_process)
        /\ \A d \in left_error : ledger[d].gemini_status = "gemini_error"
        /\ \A d \in Range(records_to_process) :
              /\ ledger[d].status = "ocr_complete"
              /\ ledger[d].gemini_status \notin {"gemini_complete", "irrelevant"}
              /\ d \notin left_error => ledger[d].gemini_status = NULL

\* a next run has fetched after a run that left an error row beside a
\* complete one
Wit_C1 ==
    /\ pc = "fetched"
    /\ left_error # {}
    /\ WithGeminiStatus("gemini_complete") # {}

\* C2: a run that starts on a Ledger whose rows are all gemini_complete
\* makes no routing call and no extraction call, never enters the loop and
\* leaves every row as it was.
Thm_C2 ==
    (startAllComplete /\ pc # "idle") =>
        /\ routeCalls = 0
        /\ extractCalls = 0
        /\ ~changed
        /\ pc \in {"fetched", "done"}
        /\ pc = "fetched" => WithGeminiStatus("gemini_complete") = DOMAIN ledger

\* such a run has ended
Wit_C2 == startAllComplete /\ pc = "done" /\ Cardinality(DOMAIN ledger) = MaxDocs

\* C3 as stated, for the stages the router does not absorb: a failure in
\* the processing of a record is caught (the run is never aborted, so the
\* records after it are processed) and the record is written gemini_error.
Orig_C3 ==
    /\ pc # "crashed"
    /\ (pc = "sleep" /\ ExtractionFailed) =>
          ledger[Current].gemini_status = "gemini_error"

\* C4: a routing call that fails (the call raises, or reading its response
\* raises) makes is_document_relevant return False; no exception leaves the
\* router, no extraction call follows, and the status written for the
\* record is irrelevant.
Thm_C4 ==
    RouterFailed =>
        /\ relevant = FALSE
        /\ pc \notin {"extract", "crashed"}
        /\ pc \in {"update", "sleep"} => service_outcome = NoCall
        /\ pc = "sleep" =>
              /\ ledger[Current].gemini_status = "irrelevant"
              /\ ledger[Current].gemini_json = IrrelevantMarker

\* the record of a failed routing call has been written
Wit_C4 == router_outcome = "text_raises" /\ pc = "sleep"

\* C5 as stated: gemini_json is present iff the row is gemini_complete.
Orig_C5 ==
    \A d \in DOMAIN ledger :
        (ledger[d].gemini_json # NullJson) <=> (ledger[d].gemini_status = "gemini_complete")

\* C5, amended: gemini_json is present iff the analysis status is not NULL.
\* A gemini_complete row carries a result without "error", an irrelevant
\* row carries the marker {"status": "irrelevant"}, a gemini_error row
\* carries a value holding "error"; only NULL-status rows carry nothing.
Thm_C5 ==
    \A d \in DOMAIN ledger :
        /\ (ledger[d].gemini_json # NullJson) <=> (ledger[d].gemini_status # NULL)
        /\ ledger[d].gemini_status = "gemini_complete" =>
              ~ErrorIn(ledger[d].gemini_json)
        /\ ledger[d].gemini_status = "irrelevant" =>
              ledger[d].gemini_json = IrrelevantMarker
        /\ ledger[d].gemini_status = "gemini_error" =>
              ErrorIn(ledger[d].gemini_json)

\* rows of all three written statuses, or as many as the Ledger can hold
Wit_C5 ==
    /\ WithGeminiStatus("gemini_error") # {}
    /\ WithGeminiStatus("gemini_complete") # {}

\* C6 as stated: when the service call fails, or the response cannot be
\* read or parsed, extract_structured_data returns (no exception leaves it)
\* an envelope with keys error and raw_response, the latter the raw text
\* when there is one and the placeholder otherwise.
Orig_C6 ==
    ExtractionFailed =>
        /\ pc # "crashed"
        /\ pc \in {"update", "sleep"} =>
              /\ structured_data.kind = "dict"
              /\ {"error", "raw_response"} \subseteq structured_data.items
              /\ structured_data.raw =
                    IF service_outcome.call = "raises"
                    THEN NoResponse ELSE service_outcome.text

\* C7 as stated: after the write of a record the router judged relevant,
\* the status is gemini_error exactly when the returned value is a mapping
\* with an error key, and gemini_complete for every other returned value.
Orig_C7 ==
    (pc = "sleep" /\ relevant) =>
        ledger[Current].gemini_status =
            IF structured_data.kind = "dict" /\ "error" \in structured_data.items
            THEN "gemini_error" ELSE "gemini_complete"

(***************************************************************************)
(* Properties of the rule-based run (under SpecRules).                     *)
(***************************************************************************)
\* the lines of the audit log written for a page of a file
SnippetsOf(name, page) ==
    {j \in 1..Len(snipf) : snipf[j].filename = name /\ snipf[j].page = page}

\* the output rows accumulated for a page of a file
RowsOf(name, page) ==
    {i \in 1..Len(rows) : rows[i].filename = name /\ rows[i].page = page}

\* C8 as stated: a candidate block (its text matches the keyword filter)
\* for which extract_fields finds no field leaves no output row and exactly
\* one line in the audit log.
Orig_C8 ==
    \A k \in 1..Len(seen) :
        seen[k].empty =>
            /\ RowsOf(seen[k].filename, seen[k].page) = {}
            /\ Cardinality(SnippetsOf(seen[k].filename, seen[k].page)) = 1

Orig_C10 ==
    rpc = "exit" => ((exit_code # 0) <=> (pdf_paths = <<>>))

\* C10, amended: the process ends with status 1 when no PDF file was found,
\* with status 2 when files were found and OCR was asked for but its modules
\* are unavailable, and with status 0 otherwise; a file that cannot be
\* parsed and an OCR failure are passed over and never give a failure
\* status.
Thm_C10 ==
    /\ rpc = "exit" =>
          exit_code = IF pdf_paths = <<>> THEN 1
                      ELSE IF ocr /\ ~ocr_available THEN 2
                      ELSE 0
    /\ rpc # "exit" => exit_code = -1
    /\ failures # {} => exit_code \in {-1, 0}

\* a run in which a file could not be parsed and OCR failed has ended
Wit_C10 ==
    /\ rpc = "exit"
    /\ failures = {"parse", "ocr"}
    /\ exit_code = 0

(***************************************************************************)
(* Properties of the acquisition script (under Spec).                      *)
(***************************************************************************)
\* the download or the OCR of the latest item raised
AcquisitionFailed == last_item.outcome \in {"download_raises", "ocr_raises"}

\* the latest item was handled as lines 112-149 handle it: skipped when its
\* row was ocr_complete, attempted otherwise, and a failure of the attempt
\* is in its row as status ocr_error with the text of the exception
ItemHandled ==
    /\ AcquisitionFailed =>
          /\ last_item.d \in DOMAIN ledger
          /\ ledger[last_item.d].status = "ocr_error"
          /\ ledger[last_item.d].ocr_text = last_item.outcome
    /\ last_item.prev = "ocr_error" => last_item.outcome # "skipped"
    /\ last_item.prev = "ocr_complete" =>
          /\ last_item.outcome = "skipped"
          /\ ledger[last_item.d].status = "ocr_complete"

\* C11 as stated: a failure of the listing, of a download or of the OCR is
\* recorded on the Ledger as an ocr_error row carrying the text of the
\* exception; an ocr_error row is attempted again by the next acquisition
\* run and an ocr_complete row is skipped.
Orig_C11 ==
    /\ ItemHandled
    /\ listing_failed =>
          \E d \in DOMAIN ledger :
              ledger[d].status = "ocr_error" /\ ledger[d].ocr_text = "listing_raises"

\* C11, amended: a failure of a download or of the OCR is recorded on the
\* Ledger as an ocr_error row carrying the text of the exception; an
\* ocr_error row is attempted again when a later acquisition run lists its
\* file, and an ocr_complete row is skipped.  A failure of the listing is
\* recorded nowhere: the run handles no item and ends.
Thm_C11 ==
    /\ ItemHandled
    /\ listing_failed => (apc = "idle" /\ last_item = NoItem)

\* a file whose row was ocr_error has been attempted again, and failed again
Wit_C11 ==
    /\ last_item.prev = "ocr_error"
    /\ AcquisitionFailed

(***************************************************************************)
(* Properties of the text functions (under SpecText).                      *)
(***************************************************************************)
\* the text holds the pieces of sub, in a row
Contains(text, sub) ==
    \E i \in 1..(Len(text) - Len(sub) + 1) :
        SubSeq(text, i, i + Len(sub) - 1) = sub

\* the fields of a block were extracted from a text of the kind
Extracted(kind) == tpc = "extracted" /\ t_case.kind = kind

\* C12 as stated: the scenario text gives one candidate block and one row,
\* with project_or_applicant "Acme Solar LLC", mw "45", acres "120", a
\* location containing "12-34-56", outcome_phrase "recommended approval",
\* ayes "4" and nays "1".
Orig_C12 ==
    Extracted("scenario") =>
        /\ Len(t_cands) = 1
        /\ {"project_or_applicant", "mw", "acres", "location", "outcome_phrase",
            "ayes", "nays"} \subseteq DOMAIN t_fields
        /\ t_fields.project_or_applicant = <<"Acme", " ", "Solar", " ", "LLC">>
        /\ t_fields.mw = <<"45">>
        /\ t_fields.acres = <<"120">>
        /\ Contains(t_fields.location, <<"12", "-", "34", "-", "56">>)
        /\ t_fields.outcome_phrase = <<"recommended", " ", "approval">>
        /\ t_fields.ayes = <<"4">>
        /\ t_fields.nays = <<"1">>

\* a sentence of the kind holds a word of the decision-factor vocabulary
HasVocabulary(k) == k \in {"because", "concerns", "long"}

\* ... and no more than 140 characters between the word and the full stop
WithinReach(k) == k \in {"because", "concerns"}

\* the first three of the sentences, stripped
FirstThree(kinds) ==
    [i \in 1..Min({3, Len(kinds)}) |-> StripText(SentenceText(kinds[i]))]

\* decision_factor_snippets is absent when no sentence is expected, and
\* holds the first three expected sentences otherwise
SnippetsAre(kinds) ==
    IF kinds = <<>>
    THEN "decision_factor_snippets" \notin DOMAIN t_fields
    ELSE /\ "decision_factor_snippets" \in DOMAIN t_fields
         /\ t_fields.decision_factor_snippets = FirstThree(kinds)

Thm_C14 ==
    Extracted("tie") =>
        /\ t_case.parts[1] \in DOMAIN t_fields
        /\ t_fields[t_case.parts[1]] = TieValue(t_case.parts[1], t_case.parts[2])

\* a text with two lines of different values for one field has been
\* extracted
Wit_C14 ==
    /\ Extracted("tie")
    /\ t_case.parts[3] \notin {"none", t_case.parts[2]}
    /\ t_case.parts[1] \in DOMAIN t_fields

(***************************************************************************)
(* Properties of the life of a record (under Spec).                        *)
(***************************************************************************)
\* what a step may do to the row of d: keep it, keep its acquisition
\* status once ocr_complete, keep an analysis status once there is one,
\* keep status and result once gemini_complete
RowAdvances(d) ==
    /\ d \in DOMAIN ledger'
    /\ ledger[d].status = "ocr_complete" => ledger'[d].status = "ocr_complete"
    /\ ledger[d].gemini_status # NULL => ledger'[d].gemini_status # NULL
    /\ ledger[d].gemini_status = "gemini_complete" =>
          /\ ledger'[d].gemini_status = "gemini_complete"
          /\ ledger'[d].gemini_json = ledger[d].gemini_json

\* C15: over any sequence of acquisition and analysis runs a record is
\* never removed from the Ledger, its acquisition status never leaves
\* ocr_complete, its analysis status never returns to NULL and never leaves
\* gemini_complete, and the result of a gemini_complete record stays.
Thm_C15 == [][\A d \in DOMAIN ledger : RowAdvances(d)]_vars

\* an acquisition run has met the file of a gemini_complete record, beside
\* a record an analysis run left in gemini_error
Wit_C15 ==
    /\ last_item.outcome = "skipped"
    /\ ledger[last_item.d].gemini_status = "gemini_complete"
    /\ WithGeminiStatus("gemini_error") # {}

(***************************************************************************)
(* Properties of termination from outside (under SpecCrash).               *)
(***************************************************************************)
\* the fetched records the analysis run has not written yet
NotYetWritten ==
    {records_to_process[i] :
        i \in (IF pc = "sleep" THEN idx + 1 ELSE idx)..Len(records_to_process)}

\* the step terminates a script
Terminated ==
    \/ pc' = "killed" /\ pc # "killed"
    \/ apc' = "killed" /\ apc # "killed"

\* the row is one a script leaves behind: an analysis status only on an
\* ocr_complete row, and a result exactly with an analysis status
WholeRow(r) ==
    /\ r.gemini_status # NULL => r.status = "ocr_complete"
    /\ (r.gemini_json # NullJson) <=> (r.gemini_status # NULL)

\* C16: no step leaves a write uncommitted, so when a script is terminated
\* at any point the committed Ledger is as the last write left it, every
\* row whole, and every record the analysis run had fetched and not yet
\* written is selected by the next run.
Thm_C16 ==
    [][/\ ~dirty'
       /\ Terminated =>
             /\ ledger' = ledger
             /\ \A d \in DOMAIN ledger' : WholeRow(ledger'[d])
             /\ pc' # pc => NotYetWritten \subseteq fetch_records_to_process']_vars

\* an analysis run was terminated after it had written a record and
\* before it had written another
Wit_C16 ==
    /\ pc = "killed"
    /\ changed
    /\ WithGeminiStatus(NULL) # {}
    /\ WithGeminiStatus("irrelevant") # {}

(***************************************************************************)
(* Properties of one analysis run (under Spec).                            *)
(***************************************************************************)
\* no record is fetched twice
Distinct(s) == \A i, j \in 1..Len(s) : s[i] = s[j] => i = j

\* C17 as stated: in one run every fetched record gets at most one routing
\* call, at most one extraction call and exactly one status write, none is
\* taken up again, and the run ends when the fetched records are exhausted
\* (and not before).
Orig_C17 ==
    /\ Distinct(records_to_process)
    /\ extractCalls <= routeCalls
    /\ pc = "route" => (routeCalls = idx - 1 /\ writeCalls = idx - 1)
    /\ pc \in {"extract", "update"} => (routeCalls = idx /\ writeCalls = idx - 1)
    /\ pc = "sleep" => (routeCalls = idx /\ writeCalls = idx)
    /\ pc = "done" =>
          /\ routeCalls = Len(records_to_process)
          /\ writeCalls = Len(records_to_process)
    /\ pc # "crashed"

\* the step issues a routing call or an extraction call
ExternalCall == routeCalls' = routeCalls + 1 \/ extractCalls' = extractCalls + 1

\* C18: in every analysis run a routing or extraction call is issued only
\* before the first status write of the run or after the delay that
\* followed the last one; every status write, whatever the status, is
\* followed by the delay as the next step of the run.
Thm_C18 ==
    [][/\ ExternalCall => (writeCalls = 0 \/ slept)
       /\ writeCalls' = writeCalls + 1 => pc' = "sleep"
       /\ (pc = "sleep" /\ pc' # "sleep") => slept']_vars

\* the routing call of the second record has been issued, after the delay
\* that followed the write of the first record as gemini_error
Wit_C18 ==
    /\ pc = "extract"
    /\ idx = 2
    /\ slept
    /\ ledger[records_to_process[1]].gemini_status = "gemini_error"

\* the row of d, once irrelevant, across a step: it stays as it is, a
\* fetch does not select it, and the record the loop routes, extracts or
\* is about to write is another one
IrrelevantStays(d) ==
    /\ d \in DOMAIN ledger'
    /\ ledger'[d] = ledger[d]
    /\ pc' = "fetched" => d \notin Range(records_to_process')
    /\ pc' \in {"route", "extract", "update"} => records_to_process'[idx'] # d

\* C20: a record written irrelevant (after a negative answer or after a
\* failed routing call alike) is selected by no later analysis run, is
\* never routed or extracted again, and its row never changes, whatever
\* acquisition and analysis runs follow.
Thm_C20 ==
    [][\A d \in DOMAIN ledger :
          ledger[d].gemini_status = "irrelevant" => IrrelevantStays(d)]_vars

\* a later analysis run has fetched its records, among them none of the
\* irrelevant ones, and is at the routing call of a record left in
\* gemini_error
Wit_C20 ==
    /\ pc = "route"
    /\ idx = 1
    /\ left_error # {}
    /\ WithGeminiStatus("irrelevant") # {}
    /\ ledger[Current].gemini_status = "gemini_error"

\* the analysis columns of the row of d differ after the step
AnalysisTouches(d) ==
    \/ ledger'[d].gemini_status # ledger[d].gemini_status
    \/ ledger'[d].gemini_json # ledger[d].gemini_json

\* C21: in every analysis run the extraction call for a record is made only
\* after the routing call for that record answered relevant in the same
\* run; a record written irrelevant has had no extraction call; and the
\* records routed, extracted or written are ocr_complete, no step changing
\* the analysis columns of any other row.
Thm_C21 ==
    [][/\ extractCalls' = extractCalls + 1 =>
             /\ routeCalls = idx
             /\ router_outcome = "yes"
             /\ relevant
       /\ ExternalCall => ledger[Current].status = "ocr_complete"
       /\ (pc = "update" /\ pc' = "sleep"
            /\ ledger'[Current].gemini_status = "irrelevant") =>
             service_outcome = NoCall
       /\ \A d \in DOMAIN ledger :
             AnalysisTouches(d) =>
                 /\ pc = "update"
                 /\ d = Current
                 /\ ledger[d].status = "ocr_complete"]_vars

\* the second record of a run has been written irrelevant after the first
\* one was routed relevant and extracted
Wit_C21 ==
    /\ pc = "sleep"
    /\ idx = 2
    /\ routeCalls = 2
    /\ extractCalls = 1
    /\ router_outcome = "no"
    /\ ledger[Current].gemini_status = "irrelevant"
    /\ ledger[records_to_process[1]].gemini_status = "gemini_complete"

(***************************************************************************)
(* Properties of the OCR fallback (under SpecFallback).                    *)
(***************************************************************************)
\* a page pdfminer gave has fewer characters than the threshold
ShortPage == \E i \in 1..Len(o_direct) : CharLen(o_direct[i].text) < OCR_MIN_CHARS

\* C19 as stated: with the flag set, OCR is tried whenever a page has
\* fewer characters than the threshold, whatever the other pages of the
\* file hold; with the flag not set OCR is never tried.
Orig_C19 ==
    opc \in {"ocr", "done"} =>
        /\ (ocr /\ ShortPage) => ocr_called
        /\ ~ocr => ~ocr_called

====
